---- MODULE Spec2Model ----
(***************************************************************************)
(* Hospital equipment maintenance dashboard (src/streamlit_app.py).        *)
(*                                                                         *)
(* The program is a script that is executed from top to bottom once per    *)
(* user interaction.  A script run opens the database, seeds it when it is *)
(* empty and loads a snapshot (StartRun); it then draws the charts, which  *)
(* takes time, and filters the due-soon view (Render); last it runs the    *)
(* handler of the button that was pressed, if any.  A handler that         *)
(* succeeds commits its write and asks for another script run.             *)
(*                                                                         *)
(* One operator at one browser session uses the application: the table is  *)
(* written by the handlers of this session only.                           *)
(*                                                                         *)
(* Time is counted in ticks, TicksPerDay ticks to a day.  The equipment    *)
(* table stores dates as text (datetime.isoformat()); a stored date is     *)
(* modelled as the pair of its calendar day and its time of day.           *)
(***************************************************************************)
EXTENDS Integers, Sequences, FiniteSets, TLC

VARIABLES
    store,      \* the equipment table: id -> row (dates stored as text)
    clock,      \* datetime.now(), in ticks
    pc,         \* where the script is: "run", "loaded" or "shown"
    loadedAt,   \* the datetime.now() load_data read in the current run
    data,       \* the DataFrame load_data returned in the current run
    upcoming,   \* ids shown in "Maintenance Due in Next 60 Days"
    lastOp,     \* the last button handled and the message it showed
    writes      \* number of writes the handlers have committed

vars == <<store, clock, pc, loadedAt, data, upcoming, lastOp, writes>>

----------------------------------------------------------------------------
\* Bounds of the model

\* number of records seed_data inserts (range(30) in the code)
SeedCount == 1

\* number of equipment types, from the head of the list, that seeding draws
\* and the Add form selects
NumTypes == 1

\* a random draw takes the lowest value of its range and the DrawTop highest
DrawTop == 1

\* resolution of the clock: ticks in one day
TicksPerDay == 2

\* ticks the time.sleep calls of one script run can take
SleepTicks == 1

\* the application is used on day 0 and again LaterDays days later
LaterDays == 2

\* number of writes the handlers commit in one run of the model
MaxWrites == 2

\* the metrics specification runs the clock up to this many days
MaxElapsedDays == 182

----------------------------------------------------------------------------
\* Program constants

EquipmentTypes ==
    <<"X-ray", "MRI", "CT Scan", "Ultrasound", "Ventilator", "ECG machine",
      "EEG machine", "EMG machine", "Blood Gas Analyzers", "Defibrillators",
      "Hospital Beds">>

StatusChoices == <<"Operational", "Under Maintenance", "Faulty">>

HighAfterDays == 180
MediumAfterDays == 90
HorizonDays == 60

RequestLo == 30

\* a draw that includes the upper end of the range
RequestHiInclusive == 60 + 1

RequestHi == 60
LastLo == 30
LastHi == 180
NextLo == 30
NextHi == 90

\* np.random.choice(types) and the options of the type selectbox
Types == {EquipmentTypes[i] : i \in 1..NumTypes}

\* np.random.choice(statuses) and the options of the status selectbox
Statuses == {StatusChoices[i] : i \in 1..Len(StatusChoices)}

\* str.zfill(w)
RECURSIVE zfill(_, _)
zfill(s, w) == IF Len(s) >= w THEN s ELSE zfill("0" \o s, w)

\* f"EQUIP{str(i+1).zfill(4)}" for i = n-1
seed_eid(n) == "EQUIP" \o zfill(ToString(n), 4)

SeedIds == {seed_eid(n) : n \in 1..SeedCount}

\* what the user types into an id text input: the seeded ids and an id
\* that seeding never creates
EidInputs == SeedIds \cup {"EQUIP9001"}

----------------------------------------------------------------------------
\* Dates

Day(n) == n * TicksPerDay

\* datetime.isoformat(): the text "<date>T<time of day>"
isoformat(t) == [date |-> t \div TicksPerDay, time |-> t % TicksPerDay]

\* pd.to_datetime of a stored text
to_datetime(s) == s.date * TicksPerDay + s.time

\* Timedelta.days: whole days, rounded down
dt_days(delta) == delta \div TicksPerDay

\* np.random.randint(lo, hi): lo <= d < hi
randint(lo, hi) == {d \in lo..(hi - 1) : d = lo \/ d >= hi - DrawTop}

----------------------------------------------------------------------------
\* Database functions

EmptyStore == [x \in {} |-> 0]

\* init_db: CREATE TABLE IF NOT EXISTS leaves an existing table as it is
init_db(st) == st

\* the row seed_data and add_equipment build at time now
NewRow(etype, status, now, d1, d2) ==
    [type             |-> etype,
     last_maintenance |-> isoformat(now - Day(d1)),
     next_maintenance |-> isoformat((now - Day(d1)) + Day(d2)),
     status           |-> status]

SeedRows(now) ==
    {NewRow(t, s, now, d1, d2) :
        t \in Types, s \in Statuses,
        d1 \in randint(LastLo, LastHi), d2 \in randint(NextLo, NextHi)}

\* seed_data: the tables it can leave behind
seed_data(st, now) ==
    IF DOMAIN st = {} THEN [SeedIds -> SeedRows(now)] ELSE {st}

\* the thresholds taken as inclusive
urgency_inclusive(days) ==
    IF days >= HighAfterDays THEN "High"
    ELSE IF days >= MediumAfterDays THEN "Medium"
    ELSE "Low"

\* lambda x: 'High' if x > 180 else ('Medium' if x > 90 else 'Low')
urgency(days) ==
    IF days > HighAfterDays THEN "High"
    ELSE IF days > MediumAfterDays THEN "Medium"
    ELSE "Low"

\* load_data: the table with the derived columns
load_data(st, now) ==
    [x \in DOMAIN st |->
        LET lastDate == to_datetime(st[x].last_maintenance)
            nextDate == to_datetime(st[x].next_maintenance)
            days     == dt_days(now - lastDate)
        IN  [type     |-> st[x].type,
             status   |-> st[x].status,
             lastDate |-> lastDate,
             nextDate |-> nextDate,
             days     |-> days,
             urgency  |-> urgency(days)]]

\* the horizon taken as inclusive
due_soon_inclusive(df, now) ==
    {x \in DOMAIN df : df[x].nextDate <= now + Day(HorizonDays)}

\* data[data['Next Maintenance Date'] < datetime.now() + timedelta(days=60)]
due_soon(df, now) ==
    {x \in DOMAIN df : df[x].nextDate < now + Day(HorizonDays)}

\* the UPDATE without its WHERE clause
request_maintenance_all(st, eid, now, d) ==
    [x \in DOMAIN st |->
        [st[x] EXCEPT !.status = "Under Maintenance",
                      !.next_maintenance = isoformat(now + Day(d))]]

\* the UPDATE also recording the request as the last maintenance
request_maintenance_resets_last(st, eid, now, d) ==
    [x \in DOMAIN st |->
        IF x = eid
        THEN [st[x] EXCEPT !.status = "Under Maintenance",
                           !.last_maintenance = isoformat(now),
                           !.next_maintenance = isoformat(now + Day(d))]
        ELSE st[x]]

\* UPDATE equipment SET status=..., next_maintenance=? WHERE id=?
request_maintenance(st, eid, now, d) ==
    [x \in DOMAIN st |->
        IF x = eid
        THEN [st[x] EXCEPT !.status = "Under Maintenance",
                           !.next_maintenance = isoformat(now + Day(d))]
        ELSE st[x]]

\* DELETE FROM equipment WHERE id=?
delete_equipment(st, eid) == [x \in DOMAIN st \ {eid} |-> st[x]]

\* what add_equipment leaves: the table, and the exception it raised if any
Returned(st) == [raised |-> "", table |-> st]
Raised(exc, st) == [raised |-> exc, table |-> st]

\* the INSERT with next_maintenance counted from now instead of from last
add_equipment_from_now(st, eid, etype, status, now, d1, d2) ==
    IF eid \in DOMAIN st
    THEN Raised("IntegrityError", st)
    ELSE Returned([x \in DOMAIN st \cup {eid} |->
            IF x = eid
            THEN [type             |-> etype,
                  last_maintenance |-> isoformat(now - Day(d1)),
                  next_maintenance |-> isoformat(now + Day(d2)),
                  status           |-> status]
            ELSE st[x]])

\* INSERT INTO equipment: sqlite3.IntegrityError on a present primary key,
\* raised before conn.commit()
add_equipment(st, eid, etype, status, now, d1, d2) ==
    IF eid \in DOMAIN st
    THEN Raised("IntegrityError", st)
    ELSE Returned([x \in DOMAIN st \cup {eid} |->
            IF x = eid THEN NewRow(etype, status, now, d1, d2) ELSE st[x]])

\* eid in data['id'].values
in_data(df, eid) == eid \in DOMAIN df

----------------------------------------------------------------------------
\* The script

\* the button just handled, the id typed and the message shown
Shown(op, eid, result) == [op |-> op, id |-> eid, result |-> result]

\* a successful add, with the type and status selected
ShownAdd(eid, etype, status) ==
    [op |-> "add", id |-> eid, result |-> "ok", etype |-> etype, status |-> status]

\* no database file yet, the first script run about to start
Init ==
    /\ store = EmptyStore
    /\ clock = 0
    /\ pc = "run"
    /\ loadedAt = 0
    /\ data = EmptyStore
    /\ upcoming = {}
    /\ lastOp = Shown("none", "", "ok")
    /\ writes = 0

\* lines 94-98: open the database, seed it when empty, load the snapshot
StartRun ==
    /\ pc = "run"
    /\ \E seeded \in seed_data(init_db(store), clock) :
        /\ store' = seeded
        /\ data' = load_data(seeded, clock)
    /\ loadedAt' = clock
    /\ pc' = "loaded"
    /\ UNCHANGED <<clock, upcoming, lastOp, writes>>

\* time.sleep: the chart animations between load_data and the due-soon view
\* (lines 119, 137) and the pause of a handler before st.rerun() (lines 151,
\* 163, 183); a visit to the application sleeps SleepTicks ticks at most
Sleep ==
    /\ pc \in {"loaded", "run"}
    /\ clock - loadedAt < SleepTicks
    /\ clock % Day(LaterDays) < SleepTicks
    /\ clock' = clock + 1
    /\ UNCHANGED <<store, pc, loadedAt, data, upcoming, lastOp, writes>>

\* lines 139-142: the due-soon view, with its own datetime.now()
Render ==
    /\ pc = "loaded"
    /\ upcoming' = due_soon(data, clock)
    /\ pc' = "shown"
    /\ UNCHANGED <<store, clock, loadedAt, data, lastOp, writes>>

\* no button was pressed in this run: the script ends
NoButton ==
    /\ pc = "shown"
    /\ pc' = "run"
    /\ lastOp' = Shown("none", "", "ok")
    /\ UNCHANGED <<store, clock, loadedAt, data, upcoming, writes>>

\* the next interaction comes LaterDays days later
Later ==
    /\ pc = "run"
    /\ clock < Day(LaterDays)
    /\ clock' = clock + Day(LaterDays)
    /\ UNCHANGED <<store, pc, loadedAt, data, upcoming, lastOp, writes>>

\* lines 147-154
RequestMaintenance(eid) ==
    /\ pc = "shown"
    /\ pc' = "run"
    /\ IF in_data(data, eid)
       THEN /\ writes < MaxWrites
            /\ writes' = writes + 1
            /\ \E d \in randint(RequestLo, RequestHi) :
                 store' = request_maintenance(store, eid, clock, d)
            /\ lastOp' = Shown("request", eid, "ok")
       ELSE /\ UNCHANGED <<store, writes>>
            /\ lastOp' = Shown("request", eid, "NotFound")
    /\ UNCHANGED <<clock, loadedAt, data, upcoming>>

\* the Delete handler without its check of the snapshot
DeleteEquipmentNoCheck(eid) ==
    /\ pc = "shown"
    /\ pc' = "run"
    /\ writes < MaxWrites
    /\ writes' = writes + 1
    /\ store' = delete_equipment(store, eid)
    /\ lastOp' = Shown("delete", eid, "ok")
    /\ UNCHANGED <<clock, loadedAt, data, upcoming>>

\* lines 159-166
DeleteEquipment(eid) ==
    /\ pc = "shown"
    /\ pc' = "run"
    /\ IF in_data(data, eid)
       THEN /\ writes < MaxWrites
            /\ writes' = writes + 1
            /\ store' = delete_equipment(store, eid)
            /\ lastOp' = Shown("delete", eid, "ok")
       ELSE /\ UNCHANGED <<store, writes>>
            /\ lastOp' = Shown("delete", eid, "NotFound")
    /\ UNCHANGED <<clock, loadedAt, data, upcoming>>

\* the outcome of lines 181-184 for what add_equipment left
AddOutcome(r, eid, etype, status) ==
    IF r.raised = ""
    THEN /\ writes < MaxWrites
         /\ writes' = writes + 1
         /\ store' = r.table
         /\ lastOp' = ShownAdd(eid, etype, status)
    ELSE /\ UNCHANGED <<store, writes>>
         /\ lastOp' = Shown("add", eid, r.raised)

\* the Add handler without its check of the snapshot, as INSERT OR REPLACE
AddEquipmentNoCheck(eid, etype, status) ==
    /\ pc = "shown"
    /\ pc' = "run"
    /\ \E d1 \in randint(LastLo, LastHi), d2 \in randint(NextLo, NextHi) :
         AddOutcome(add_equipment(delete_equipment(store, eid), eid, etype,
                                  status, clock, d1, d2),
                    eid, etype, status)
    /\ UNCHANGED <<clock, loadedAt, data, upcoming>>

\* lines 177-184
AddEquipment(eid, etype, status) ==
    /\ pc = "shown"
    /\ pc' = "run"
    /\ IF in_data(data, eid)
       THEN /\ UNCHANGED <<store, writes>>
            /\ lastOp' = Shown("add", eid, "AlreadyExists")
       ELSE \E d1 \in randint(LastLo, LastHi), d2 \in randint(NextLo, NextHi) :
              AddOutcome(add_equipment(store, eid, etype, status, clock, d1, d2),
                         eid, etype, status)
    /\ UNCHANGED <<clock, loadedAt, data, upcoming>>

Next ==
    \/ StartRun
    \/ Sleep
    \/ Render
    \/ NoButton
    \/ Later
    \/ \E eid \in EidInputs : RequestMaintenance(eid)
    \/ \E eid \in EidInputs : DeleteEquipment(eid)
    \/ \E eid \in EidInputs, etype \in Types, status \in Statuses :
          AddEquipment(eid, etype, status)

Spec == Init /\ [][Next]_vars

----------------------------------------------------------------------------
\* The derived metrics on their own: a table of rows with arbitrary dates is
\* loaded and rendered by one script run, started at any tick of the clock.

MetricsRows ==
    {[type             |-> EquipmentTypes[1],
      last_maintenance |-> isoformat(l),
      next_maintenance |-> isoformat(n),
      status           |-> StatusChoices[1]] :
        l \in 0..(TicksPerDay - 1),
        n \in {Day(HorizonDays - 1), Day(HorizonDays) - 1,
               Day(HorizonDays), Day(HorizonDays) + 1}}

MetricsInit ==
    /\ store \in [SeedIds -> MetricsRows]
    /\ clock = 0
    /\ pc = "run"
    /\ loadedAt = 0
    /\ data = EmptyStore
    /\ upcoming = {}
    /\ lastOp = Shown("none", "", "ok")
    /\ writes = 0

\* time passes before the script run
MetricsTick ==
    /\ pc = "run"
    /\ clock < Day(MaxElapsedDays)
    /\ clock' = clock + 1
    /\ UNCHANGED <<store, pc, loadedAt, data, upcoming, lastOp, writes>>

\* the chart animations, at any time of day
MetricsSleep ==
    /\ pc = "loaded"
    /\ clock - loadedAt < SleepTicks
    /\ clock < Day(MaxElapsedDays)
    /\ clock' = clock + 1
    /\ UNCHANGED <<store, pc, loadedAt, data, upcoming, lastOp, writes>>

MetricsNext ==
    \/ StartRun
    \/ MetricsSleep
    \/ Render
    \/ MetricsTick

SpecMetrics == MetricsInit /\ [][MetricsNext]_vars

----------------------------------------------------------------------------
\* Properties

NextDate(x) == to_datetime(store[x].next_maintenance)
LastDate(x) == to_datetime(store[x].last_maintenance)

\* the step is the handler of the button op
Pressed(op) == pc = "shown" /\ pc' = "run" /\ lastOp'.op = op

\* a step that leaves every record but x as it was and keeps the set of ids
OthersKept(x) ==
    /\ DOMAIN store' = DOMAIN store
    /\ \A y \in DOMAIN store \ {x} : store'[y] = store[y]

\* C1: after a successful deleteEquipment(X), a requestMaintenance(X) issued
\* as the next interaction fails with NotFound and changes nothing, also when
\* X was the only record left and the start-up steps ran in between.
C1_DeleteThenRequestNotFound ==
    [][(/\ lastOp.op = "delete"
        /\ lastOp.result = "ok"
        /\ Pressed("request")
        /\ lastOp'.id = lastOp.id)
       => (lastOp'.result = "NotFound" /\ store' = store)]_vars

\* C2 as stated: requestMaintenance(X, now) on a present X sets status to
\* Under Maintenance and nextMaintenance strictly between now+30 days and
\* now+60 days; id, type, lastMaintenance and every other record unchanged.
C2_RequestStrictlyBetween ==
    [][(Pressed("request") /\ lastOp'.id \in DOMAIN store) =>
        LET x == lastOp'.id
            nm == to_datetime(store'[x].next_maintenance)
        IN  /\ lastOp'.result = "ok"
            /\ store'[x].status = "Under Maintenance"
            /\ nm > clock' + 30 * TicksPerDay
            /\ nm < clock' + 60 * TicksPerDay
            /\ store'[x].type = store[x].type
            /\ store'[x].last_maintenance = store[x].last_maintenance
            /\ OthersKept(x)]_vars

\* C2 amended: requestMaintenance(X, now) on a present X succeeds, sets
\* status to Under Maintenance and nextMaintenance to at least now+30 days
\* and strictly less than now+60 days; id, type, lastMaintenance and every
\* other record are unchanged.
C2_RequestEffect ==
    [][Pressed("request") =>
        LET x == lastOp'.id
        IN  /\ (x \in DOMAIN store) <=> (lastOp'.result = "ok")
            /\ (x \in DOMAIN store) =>
                LET nm == to_datetime(store'[x].next_maintenance)
                IN  /\ store'[x].status = "Under Maintenance"
                    /\ nm >= clock' + 30 * TicksPerDay
                    /\ nm < clock' + 60 * TicksPerDay
                    /\ store'[x].type = store[x].type
                    /\ store'[x].last_maintenance = store[x].last_maintenance
                    /\ OthersKept(x)]_vars

\* a request has just moved a record's next maintenance to exactly now+30
\* days while another record is in the store
C2_Witness ==
    /\ lastOp.op = "request"
    /\ lastOp.result = "ok"
    /\ pc = "run"
    /\ Cardinality(DOMAIN store) >= 2
    /\ store[lastOp.id].status = "Under Maintenance"
    /\ NextDate(lastOp.id) = clock + 30 * TicksPerDay

\* C3: Add Equipment with an id already in the store fails with
\* AlreadyExists and leaves the store identical; adding X twice in a row
\* succeeds the first time and fails the second time.
C3_AddExistingRejected ==
    [][Pressed("add") =>
        /\ (lastOp'.id \in DOMAIN store) =>
              (lastOp'.result = "AlreadyExists" /\ store' = store)
        /\ (lastOp'.id \notin DOMAIN store) => lastOp'.result = "ok"
        /\ (lastOp.op = "add" /\ lastOp.result = "ok" /\ lastOp'.id = lastOp.id)
              => (lastOp'.result = "AlreadyExists" /\ store' = store)]_vars

\* the second add of an id that only an earlier add can have created was
\* just rejected, right after the add that created it
C3_Witness ==
    /\ lastOp.op = "add"
    /\ lastOp.result = "AlreadyExists"
    /\ lastOp.id \notin SeedIds
    /\ lastOp.id \in DOMAIN store
    /\ writes = 1
    /\ Cardinality(DOMAIN store) = SeedCount + 1

\* C4: the program offers markOperational: for every record in the store
\* whose status is Under Maintenance some action of the program leads to
\* that record having status Operational.
C4_MarkOperationalOffered ==
    \A x \in DOMAIN store :
        store[x].status = "Under Maintenance" =>
            ENABLED (/\ Next
                     /\ x \in DOMAIN store'
                     /\ store'[x].status = "Operational")

\* C5: a successful addEquipment(X, type, status, now) of an absent X leaves
\* a store with a record X carrying the given type and status,
\* lastMaintenance = now - d1 days with 30 <= d1 < 180 and nextMaintenance =
\* lastMaintenance + d2 days with 30 <= d2 < 90, the records that existed
\* before present and unchanged; the listing loaded next shows that store.
C5_AddEffect ==
    [][/\ (Pressed("add") /\ lastOp'.result = "ok") =>
            LET x == lastOp'.id
                lm == to_datetime(store'[x].last_maintenance)
                nm == to_datetime(store'[x].next_maintenance)
            IN  /\ x \notin DOMAIN store
                /\ DOMAIN store' = DOMAIN store \cup {x}
                /\ \A y \in DOMAIN store : store'[y] = store[y]
                /\ store'[x].type = lastOp'.etype
                /\ store'[x].status = lastOp'.status
                /\ \E d1 \in 30..179 : lm = clock' - d1 * TicksPerDay
                /\ \E d2 \in 30..89 : nm = lm + d2 * TicksPerDay
       /\ (lastOp.op = "add" /\ lastOp.result = "ok" /\ pc = "run" /\ pc' = "loaded") =>
            LET x == lastOp.id
            IN  /\ store' = store
                /\ DOMAIN data' = DOMAIN store
                /\ data'[x].type = lastOp.etype
                /\ data'[x].status = lastOp.status
                /\ data'[x].lastDate = LastDate(x)
                /\ data'[x].nextDate = NextDate(x)
                /\ \A y \in DOMAIN store :
                      /\ data'[y].type = store[y].type
                      /\ data'[y].status = store[y].status]_vars

\* the listing loaded right after a successful add shows the new record
\* next to a record that was already there
C5_Witness ==
    /\ lastOp.op = "add"
    /\ lastOp.result = "ok"
    /\ pc = "loaded"
    /\ lastOp.id \in DOMAIN data
    /\ Cardinality(DOMAIN data) >= 2

\* C6: a Request Maintenance or Delete Equipment on an id absent from the
\* snapshot reports NotFound, an Add Equipment on a present id reports
\* AlreadyExists, and a failing action writes nothing: the table, the
\* snapshot, the views and the clock are exactly as before, so the next
\* interaction starts from the state the failed one found; an action that
\* does not fail commits its write.
C6_FailureLeavesNoTrace ==
    [][(pc = "shown" /\ lastOp'.op \in {"request", "delete", "add"}) =>
        /\ (lastOp'.op \in {"request", "delete"}) =>
              ((lastOp'.id \notin DOMAIN data) <=> (lastOp'.result = "NotFound"))
        /\ (lastOp'.op = "add") =>
              ((lastOp'.id \in DOMAIN data) <=> (lastOp'.result = "AlreadyExists"))
        /\ lastOp'.result \in {"ok", "NotFound", "AlreadyExists"}
        /\ (lastOp'.result # "ok") =>
              UNCHANGED <<store, clock, loadedAt, data, upcoming, writes>>
        /\ (lastOp'.result = "ok") => writes' = writes + 1
        /\ pc' = "run"]_vars

\* a delete of an absent id was just refused after an earlier write
C6_Witness ==
    /\ lastOp.op = "delete"
    /\ lastOp.result = "NotFound"
    /\ lastOp.id \notin DOMAIN store
    /\ writes > 0

\* whole days between a stored last-maintenance text and the time load_data
\* read, counted on the calendar: the difference of the dates, less one when
\* the time of day has not yet been reached
WholeDaysSince(s) ==
    ((loadedAt \div TicksPerDay) - s.date)
        - (IF (loadedAt % TicksPerDay) < s.time THEN 1 ELSE 0)

\* C7: the urgency shown is decided by the whole days elapsed since
\* lastMaintenance alone: more than 180 is High, more than 90 and at most 180
\* is Medium, at most 90 is Low (181 High, 180 Medium, 91 Medium, 90 Low,
\* 1 Low).
C7_UrgencyThresholds ==
    \A x \in DOMAIN data :
        LET n == WholeDaysSince(store[x].last_maintenance)
            u == data[x].urgency
        IN  /\ (n > 180) => u = "High"
            /\ (n > 90 /\ n <= 180) => u = "Medium"
            /\ (n <= 90) => u = "Low"
            /\ (n = 181) => u = "High"
            /\ (n \in {180, 91}) => u = "Medium"
            /\ (n \in {90, 1}) => u = "Low"

\* a record loaded exactly 180 whole days after its last maintenance, a part
\* of a day short of 181, is shown as Medium
C7_Witness ==
    \E x \in DOMAIN data :
        /\ WholeDaysSince(store[x].last_maintenance) = 180
        /\ loadedAt - LastDate(x) > 180 * TicksPerDay
        /\ data[x].urgency = "Medium"

\* the stored next-maintenance text s is earlier than the clock plus 60 days,
\* compared as (date, time of day)
BeforeHorizon(s) ==
    \/ s.date < (clock \div TicksPerDay) + 60
    \/ (s.date = (clock \div TicksPerDay) + 60 /\ s.time < clock % TicksPerDay)

\* C8: the due-soon view, when it is rendered, holds exactly the records
\* whose nextMaintenance is strictly earlier than now + 60 days: one at
\* exactly now + 60 days is excluded, one at now + 59 days is included, one
\* in the past is included.
C8_DueSoonStrict ==
    (pc = "shown") =>
        \A x \in DOMAIN store :
            /\ (x \in upcoming) <=> BeforeHorizon(store[x].next_maintenance)
            /\ (NextDate(x) = clock + 60 * TicksPerDay) => x \notin upcoming
            /\ (NextDate(x) = clock + 59 * TicksPerDay) => x \in upcoming
            /\ (NextDate(x) < clock) => x \in upcoming

\* a record due exactly 60 days from now is left out of the view just
\* rendered
C8_Witness ==
    /\ pc = "shown"
    /\ \E x \in DOMAIN store :
        /\ NextDate(x) = clock + 60 * TicksPerDay
        /\ x \notin upcoming

\* C9: every record of the store has nextMaintenance earlier than now + 60
\* days at any time from its last write on, so the due-soon view, when it is
\* rendered, shows every record of the store.
C9_DueSoonShowsAll ==
    /\ \A x \in DOMAIN store : NextDate(x) < clock + 60 * TicksPerDay
    /\ (pc = "shown") => upcoming = DOMAIN store

\* the view rendered after a request shows the record to which the request
\* gave the latest date it can draw, now + 59 days
C9_Witness ==
    /\ lastOp.op = "request"
    /\ lastOp.result = "ok"
    /\ pc = "shown"
    /\ data[lastOp.id].nextDate = loadedAt + 59 * TicksPerDay
    /\ lastOp.id \in upcoming

UrgencyRank(u) == CASE u = "Low" -> 0 [] u = "Medium" -> 1 [] OTHER -> 2

\* C10: no action changes the lastMaintenance or the type of a record that
\* stays in the store, and such a record's urgency never decreases from one
\* loading to the next; requesting maintenance does not lower it.
C10_LastMaintenanceConstant ==
    [][\A x \in DOMAIN store \cap DOMAIN store' :
          /\ store'[x].last_maintenance = store[x].last_maintenance
          /\ store'[x].type = store[x].type
          /\ (x \in DOMAIN data /\ x \in DOMAIN data') =>
                UrgencyRank(data'[x].urgency) >= UrgencyRank(data[x].urgency)]_vars

\* after maintenance was requested for a record whose urgency had risen to
\* High, the record is loaded again and is still High
C10_Witness ==
    /\ lastOp.op = "request"
    /\ lastOp.result = "ok"
    /\ pc = "loaded"
    /\ clock >= LaterDays * TicksPerDay
    /\ data[lastOp.id].urgency = "High"
    /\ data[lastOp.id].status = "Under Maintenance"

====
